---- MODULE Spec2Model ----
(***************************************************************************)
(* Minimax player for Connect-N (src/player.py) together with the Board    *)
(* collaborator it is handed (board.py is imported by player.py; its       *)
(* contract is sections 3 and 6 of the specification).                     *)
(*                                                                         *)
(* Python objects are records.  A method that mutates `self` or the board  *)
(* is an operator returning the mutated objects next to its result:        *)
(*   [self |-> Player, board |-> Board, ...result fields...]               *)
(* `None` is the empty sequence <<>> and an object reference is <<obj>>.   *)
(***************************************************************************)
EXTENDS Integers, Sequences, FiniteSets, TLC

\* ---------------------------------------------------------------- constants
WINSCORE == 9999
LOSEPENALTY == -9999
DRAWPENALTY == -5000
MOVEPENALTY == -1
\* math.inf: only ever compared (min, max, >, >=), never added to
Inf == 1000000

\* the Board the game is played on: Board.numRows, Board.numColumns and the
\* length of the run checkWin looks for.  3 x 3 with runs of 3 is the smallest
\* board on which pruning changes a result.
NumRows == 3
NumColumns == 3
WinLength == 3

\* ------------------------------------------------------------------- bounds
\* the searches are started only on boards with at most MaxEmpty empty cells
MaxEmpty == 6

Rows == 0 .. (NumRows - 1)
Cols == 0 .. (NumColumns - 1)
Empty == " "
None == <<>>

Min(a, b) == IF a < b THEN a ELSE b
Max(a, b) == IF a > b THEN a ELSE b

\* ------------------------------------------------------------------- Board
\* Board(numRows, numColumns): empty grid, nothing placed yet
NewBoard ==
  [cells    |-> [p \in Rows \X Cols |-> Empty],
   colFills |-> [c \in Cols |-> 0],
   lastPlay |-> None]

\* addPiece(column, mark): lands in the lowest empty row, records lastPlay
addPiece(b, col, mark) ==
  LET row == b.colFills[col] IN
  [cells    |-> [b.cells EXCEPT ![<<row, col>>] = mark],
   colFills |-> [b.colFills EXCEPT ![col] = @ + 1],
   lastPlay |-> <<<<row, col>>>>]

\* removePiece(column): undoes the most recent placement in that column.
\* lastPlay keeps naming the removed piece; the Player reads lastPlay and calls
\* checkWin only right after an addPiece, so nothing it computes depends on it.
removePiece(b, col) ==
  LET row == b.colFills[col] - 1 IN
  [cells    |-> [b.cells EXCEPT ![<<row, col>>] = Empty],
   colFills |-> [b.colFills EXCEPT ![col] = row],
   lastPlay |-> b.lastPlay]

\* checkSpace(row, column): the mark in a cell, or empty
checkSpace(b, row, col) == b.cells[<<row, col>>]

\* checkFull(): every column is filled to numRows
checkFull(b) == \A c \in Cols : b.colFills[c] = NumRows

\* number of consecutive cells holding `mark` from (r, c) stepping by (dr, dc)
RECURSIVE RunFrom(_, _, _, _, _, _)
RunFrom(b, mark, r, c, dr, dc) ==
  IF r \in Rows /\ c \in Cols /\ b.cells[<<r, c>>] = mark
  THEN 1 + RunFrom(b, mark, r + dr, c + dc, dr, dc)
  ELSE 0

Directions == {<<0, 1>>, <<1, 0>>, <<1, 1>>, <<1, -1>>}

\* checkWin(): the most recent placement completes a run of WinLength
checkWin(b) ==
  /\ b.lastPlay # None
  /\ LET r == b.lastPlay[1][1]
         c == b.lastPlay[1][2]
         mark == b.cells[<<r, c>>]
     IN /\ mark # Empty
        /\ \E d \in Directions :
             1 + RunFrom(b, mark, r + d[1], c + d[2], d[1], d[2])
               + RunFrom(b, mark, r - d[1], c - d[2], -d[1], -d[2]) >= WinLength

EmptyCells(b) == NumRows * NumColumns - Cardinality({c2 \in Rows \X Cols : b.cells[c2] # Empty})

\* ------------------------------------------------------------------ Player
\* Player.__init__(name)
NewPlayer(name) ==
  [name         |-> name,
   numExpanded  |-> 0,
   numPruned    |-> 0,
   lastState    |-> None,
   opponentName |-> IF name = "X" THEN "O" ELSE "X"]

\* playerNode(score) / opponentNode(score) constructors
playerNode(score) == [score |-> score, children |-> <<>>, lastMove |-> None]
opponentNode(score) == [score |-> score, bestChild |-> None, lastMove |-> None]

\* self.numExpanded += 1
countExpanded(self) == [self EXCEPT !.numExpanded = @ + 1]
\* self.numPruned += 1
countPruned(self) == [self EXCEPT !.numPruned = @ + 1]

RECURSIVE evaluatePlayerMove(_, _)
RECURSIVE evaluateOpponentMove(_, _)
RECURSIVE playerMoveLoop(_, _, _, _)
RECURSIVE opponentMoveLoop(_, _, _, _, _)
RECURSIVE playerMoveStep(_, _, _)
RECURSIVE opponentMoveStep(_, _, _, _)
RECURSIVE minChildScore(_, _, _)

\* Every loop over the columns is a pair: xLoop places the piece and makes the
\* recursive call, xStep is the rest of the loop body, given what the call
\* returned (moveState: the Player and the Board after it, and its result).

\* lines 74-76: undo the placement, append the child, go on with the next column
playerMoveStep(col, currChildren, moveState) ==
  playerMoveLoop(moveState.self, removePiece(moveState.board, col), col + 1,
                 Append(currChildren, moveState.node))

\* lines 69-73: for col in range(0, numColumns): place the opponent, recurse
playerMoveLoop(self, currBoard, col, currChildren) ==
  IF col = NumColumns
  THEN [self |-> self, board |-> currBoard, children |-> currChildren]
  ELSE IF currBoard.colFills[col] # NumRows
  THEN playerMoveStep(col, currChildren,
         evaluateOpponentMove(self, addPiece(currBoard, col, self.opponentName)))
  ELSE playerMoveLoop(self, currBoard, col + 1, currChildren)

\* for i in range(len(currChildren)): node.score = min(node.score, child.score)
minChildScore(score, currChildren, i) ==
  IF i > Len(currChildren) THEN score
  ELSE minChildScore(Min(score, currChildren[i].score), currChildren, i + 1)

\* (variant: the move penalty is charged on the terminal branches only)
evaluatePlayerMoveFlat(self, currBoard) ==
  LET node == [playerNode(0) EXCEPT !.lastMove = currBoard.lastPlay] IN
  IF checkWin(currBoard)
  THEN [self  |-> countExpanded(self), board |-> currBoard,
        node  |-> [node EXCEPT !.score = 0 + WINSCORE + MOVEPENALTY]]
  ELSE IF checkFull(currBoard)
  THEN [self  |-> countExpanded(self), board |-> currBoard,
        node  |-> [node EXCEPT !.score = 0 + DRAWPENALTY + MOVEPENALTY]]
  ELSE LET loop == playerMoveLoop(self, currBoard, 0, <<>>)
           worst == minChildScore(Inf, loop.children, 1)
       IN [self  |-> countExpanded(loop.self), board |-> loop.board,
           node  |-> [node EXCEPT !.score = worst,
                                  !.children = loop.children]]

\* lines 54-88
evaluatePlayerMove(self, currBoard) ==
  LET node == [playerNode(0) EXCEPT !.lastMove = currBoard.lastPlay] IN
  IF checkWin(currBoard)
  THEN [self  |-> countExpanded(self), board |-> currBoard,
        node  |-> [node EXCEPT !.score = 0 + WINSCORE + MOVEPENALTY]]
  ELSE IF checkFull(currBoard)
  THEN [self  |-> countExpanded(self), board |-> currBoard,
        node  |-> [node EXCEPT !.score = 0 + DRAWPENALTY + MOVEPENALTY]]
  ELSE LET loop == playerMoveLoop(self, currBoard, 0, <<>>)
           worst == minChildScore(Inf, loop.children, 1)
       IN [self  |-> countExpanded(loop.self), board |-> loop.board,
           node  |-> [node EXCEPT !.score = worst + MOVEPENALTY,
                                  !.children = loop.children]]

\* (variant: a later child of equal score replaces the best one)
isBetterOrEqual(score, bestScore) == score >= bestScore

\* moveState.score > bestChildScore: a later child replaces the best one only
\* when it is strictly better
isBetter(score, bestScore) == score > bestScore

\* lines 127-131: undo the placement, keep the strictly best child
opponentMoveStep(col, bestChildScore, bestChild, moveState) ==
  LET better == isBetter(moveState.node.score, bestChildScore)
  IN opponentMoveLoop(moveState.self, removePiece(moveState.board, col), col + 1,
                      IF better THEN moveState.node.score ELSE bestChildScore,
                      IF better THEN <<moveState.node>> ELSE bestChild)

\* lines 121-126: for col in range(0, numColumns): place the player, recurse
opponentMoveLoop(self, currBoard, col, bestChildScore, bestChild) ==
  IF col = NumColumns
  THEN [self |-> self, board |-> currBoard, bestChild |-> bestChild]
  ELSE IF currBoard.colFills[col] # NumRows
  THEN opponentMoveStep(col, bestChildScore, bestChild,
         evaluatePlayerMove(self, addPiece(currBoard, col, self.name)))
  ELSE opponentMoveLoop(self, currBoard, col + 1, bestChildScore, bestChild)

\* lines 108-137
evaluateOpponentMove(self, currBoard) ==
  LET node == [opponentNode(0) EXCEPT !.lastMove = currBoard.lastPlay] IN
  IF checkWin(currBoard)
  THEN [self  |-> countExpanded(self), board |-> currBoard,
        node  |-> [node EXCEPT !.score = 0 + LOSEPENALTY]]
  ELSE IF checkFull(currBoard)
  THEN [self  |-> countExpanded(self), board |-> currBoard,
        node  |-> [node EXCEPT !.score = 0 + DRAWPENALTY]]
  ELSE LET loop == opponentMoveLoop(self, currBoard, 0, -Inf, None)
       IN [self  |-> countExpanded(loop.self), board |-> loop.board,
           node  |-> [node EXCEPT !.score = loop.bestChild[1].score,
                                  !.bestChild = loop.bestChild]]

\* Player.getMove, first call: try every legal column, keep the strictly best
RECURSIVE firstMoveLoop(_, _, _, _, _, _)
RECURSIVE firstMoveStep(_, _, _, _, _)
\* lines 165-170: undo the placement, keep the strictly best move
firstMoveStep(col, bestMoveScore, bestMove, bestState, moveState) ==
  LET better == moveState.node.score > bestMoveScore
  IN firstMoveLoop(moveState.self, removePiece(moveState.board, col), col + 1,
                   IF better THEN moveState.node.score ELSE bestMoveScore,
                   IF better THEN col ELSE bestMove,
                   IF better THEN <<moveState.node>> ELSE bestState)

\* lines 159-164: for col in range(0, numColumns): place the player, evaluate
firstMoveLoop(self, gameBoard, col, bestMoveScore, bestMove, bestState) ==
  IF col = NumColumns
  THEN [self |-> self, board |-> gameBoard, bestMoveScore |-> bestMoveScore,
        bestMove |-> bestMove, bestState |-> bestState]
  ELSE IF gameBoard.colFills[col] # NumRows
  THEN firstMoveStep(col, bestMoveScore, bestMove, bestState,
         evaluatePlayerMove(self, addPiece(gameBoard, col, self.name)))
  ELSE firstMoveLoop(self, gameBoard, col + 1, bestMoveScore, bestMove, bestState)

\* column of a node's lastMove (lastMove[1] in the source), row is lastMove[0]
moveColumn(lastMove) == lastMove[1][2]
moveRow(lastMove) == lastMove[1][1]

\* Player.getMove, later calls: find the child the opponent played into and
\* descend to its bestChild.  `raised` is the exception that leaves the call.
RECURSIVE descendLoop(_, _, _, _)
descendLoop(self, gameBoard, child, bestMove) ==
  IF child > Len(self.lastState[1].children)
  THEN [self |-> self, board |-> gameBoard, bestMove |-> bestMove, raised |-> "none"]
  ELSE LET node        == self.lastState[1].children[child]
           columnCheck == moveColumn(node.lastMove)
           rowCheck    == moveRow(node.lastMove)
       IN IF checkSpace(gameBoard, rowCheck, columnCheck) = self.opponentName
          THEN LET nextState == node.bestChild
                   moved     == [self EXCEPT !.lastState = nextState]
               IN IF nextState = None
                  THEN [self |-> moved, board |-> gameBoard, bestMove |-> bestMove,
                        raised |-> "AttributeError"]
                  ELSE [self |-> moved, board |-> gameBoard,
                        bestMove |-> moveColumn(nextState[1].lastMove),
                        raised |-> "none"]
          ELSE descendLoop(self, gameBoard, child + 1, bestMove)

getMove(self, gameBoard) ==
  IF self.lastState = None
  THEN LET loop == firstMoveLoop(self, gameBoard, 0, -Inf, -1, None)
       IN [self |-> [loop.self EXCEPT !.lastState = loop.bestState],
           board |-> loop.board, bestMove |-> loop.bestMove, raised |-> "none"]
  ELSE descendLoop(self, gameBoard, 1, -1)

\* ------------------------------------------------------------- alpha-beta
RECURSIVE evaluatePlayerMoveAB(_, _, _, _)
RECURSIVE evaluateOpponentMoveAB(_, _, _, _)
RECURSIVE playerMoveLoopAB(_, _, _, _, _, _)
RECURSIVE opponentMoveLoopAB(_, _, _, _, _, _)
RECURSIVE playerMoveStepAB(_, _, _, _, _)
RECURSIVE opponentMoveStepAB(_, _, _, _, _)

\* (variant: the prune break leaves the loop before the placement is undone)
playerMoveStepABKeepPiece(col, nodeScore, alpha, beta, moveState) ==
  LET undone    == removePiece(moveState.board, col)
      newScore  == Min(nodeScore, moveState.nodeScore)
      newBeta   == Min(beta, newScore)
  IN IF alpha >= newBeta
     THEN [self |-> countPruned(moveState.self), board |-> moveState.board,
           nodeScore |-> newScore]
     ELSE playerMoveLoopAB(moveState.self, undone, col + 1, newScore,
                           alpha, newBeta)

\* (variant: every child evaluated is counted as one more expanded node)
playerMoveStepABCountChildren(col, nodeScore, alpha, beta, moveState) ==
  LET undone    == removePiece(moveState.board, col)
      newScore  == Min(nodeScore, moveState.nodeScore)
      newBeta   == Min(beta, newScore)
  IN IF alpha >= newBeta
     THEN [self |-> countExpanded(countPruned(moveState.self)), board |-> undone,
           nodeScore |-> newScore]
     ELSE playerMoveLoopAB(countExpanded(moveState.self), undone, col + 1,
                           newScore, alpha, newBeta)

\* lines 234-245: undo the placement, fold the minimum, lower beta, prune
playerMoveStepAB(col, nodeScore, alpha, beta, moveState) ==
  LET undone    == removePiece(moveState.board, col)
      newScore  == Min(nodeScore, moveState.nodeScore)
      newBeta   == Min(beta, newScore)
  IN IF alpha >= newBeta
     THEN [self |-> countPruned(moveState.self), board |-> undone,
           nodeScore |-> newScore]
     ELSE playerMoveLoopAB(moveState.self, undone, col + 1, newScore,
                           alpha, newBeta)

\* lines 228-233: for col in range(0, numColumns): place the opponent, recurse
playerMoveLoopAB(self, currBoard, col, nodeScore, alpha, beta) ==
  IF col = NumColumns
  THEN [self |-> self, board |-> currBoard, nodeScore |-> nodeScore]
  ELSE IF currBoard.colFills[col] # NumRows
  THEN playerMoveStepAB(col, nodeScore, alpha, beta,
         evaluateOpponentMoveAB(self, addPiece(currBoard, col, self.opponentName),
                                alpha, beta))
  ELSE playerMoveLoopAB(self, currBoard, col + 1, nodeScore, alpha, beta)

\* lines 217-249
evaluatePlayerMoveAB(self, currBoard, alpha, beta) ==
  IF checkWin(currBoard)
  THEN [self |-> countExpanded(self), board |-> currBoard,
        nodeScore |-> 0 + WINSCORE + MOVEPENALTY]
  ELSE IF checkFull(currBoard)
  THEN [self |-> countExpanded(self), board |-> currBoard,
        nodeScore |-> 0 + DRAWPENALTY + MOVEPENALTY]
  ELSE LET loop == playerMoveLoopAB(self, currBoard, 0, Inf, alpha, beta)
       IN [self |-> countExpanded(loop.self), board |-> loop.board,
           nodeScore |-> loop.nodeScore + MOVEPENALTY]

\* lines 282-293: undo the placement, fold the maximum, raise alpha, prune
opponentMoveStepAB(col, bestChildScore, alpha, beta, moveState) ==
  LET undone    == removePiece(moveState.board, col)
      newBest   == Max(bestChildScore, moveState.nodeScore)
      newAlpha  == Max(alpha, newBest)
  IN IF newAlpha >= beta
     THEN [self |-> countPruned(moveState.self), board |-> undone,
           bestChildScore |-> newBest]
     ELSE opponentMoveLoopAB(moveState.self, undone, col + 1, newBest,
                             newAlpha, beta)

\* lines 276-281: for col in range(0, numColumns): place the player, recurse
opponentMoveLoopAB(self, currBoard, col, bestChildScore, alpha, beta) ==
  IF col = NumColumns
  THEN [self |-> self, board |-> currBoard, bestChildScore |-> bestChildScore]
  ELSE IF currBoard.colFills[col] # NumRows
  THEN opponentMoveStepAB(col, bestChildScore, alpha, beta,
         evaluatePlayerMoveAB(self, addPiece(currBoard, col, self.name),
                              alpha, beta))
  ELSE opponentMoveLoopAB(self, currBoard, col + 1, bestChildScore, alpha, beta)

\* (variant: the full board is tested before the win)
evaluateOpponentMoveABFullFirst(self, currBoard, alpha, beta) ==
  IF checkFull(currBoard)
  THEN [self |-> countExpanded(self), board |-> currBoard,
        nodeScore |-> 0 + DRAWPENALTY]
  ELSE IF checkWin(currBoard)
  THEN [self |-> countExpanded(self), board |-> currBoard,
        nodeScore |-> 0 + LOSEPENALTY]
  ELSE LET loop == opponentMoveLoopAB(self, currBoard, 0, -Inf, alpha, beta)
       IN [self |-> countExpanded(loop.self), board |-> loop.board,
           nodeScore |-> loop.bestChildScore]

\* lines 268-298
evaluateOpponentMoveAB(self, currBoard, alpha, beta) ==
  IF checkWin(currBoard)
  THEN [self |-> countExpanded(self), board |-> currBoard,
        nodeScore |-> 0 + LOSEPENALTY]
  ELSE IF checkFull(currBoard)
  THEN [self |-> countExpanded(self), board |-> currBoard,
        nodeScore |-> 0 + DRAWPENALTY]
  ELSE LET loop == opponentMoveLoopAB(self, currBoard, 0, -Inf, alpha, beta)
       IN [self |-> countExpanded(loop.self), board |-> loop.board,
           nodeScore |-> loop.bestChildScore]

RECURSIVE alphaBetaLoop(_, _, _, _, _, _, _)
RECURSIVE alphaBetaStep(_, _, _, _, _, _)
\* (variant: a later move of equal score replaces the best one)
alphaBetaStepLastBest(col, bestMoveScore, bestMove, alpha, beta, moveState) ==
  LET better    == moveState.nodeScore >= bestMoveScore
      newScore  == IF better THEN moveState.nodeScore ELSE bestMoveScore
  IN alphaBetaLoop(moveState.self, removePiece(moveState.board, col), col + 1,
                   newScore, IF better THEN col ELSE bestMove,
                   Max(alpha, newScore), beta)

\* lines 325-331: undo the placement, keep the strictly best move, raise alpha
alphaBetaStep(col, bestMoveScore, bestMove, alpha, beta, moveState) ==
  LET better    == moveState.nodeScore > bestMoveScore
      newScore  == IF better THEN moveState.nodeScore ELSE bestMoveScore
  IN alphaBetaLoop(moveState.self, removePiece(moveState.board, col), col + 1,
                   newScore, IF better THEN col ELSE bestMove,
                   Max(alpha, newScore), beta)

\* lines 319-324: for col in range(0, numColumns): place the player, evaluate
alphaBetaLoop(self, gameBoard, col, bestMoveScore, bestMove, alpha, beta) ==
  IF col = NumColumns
  THEN [self |-> self, board |-> gameBoard, bestMoveScore |-> bestMoveScore,
        bestMove |-> bestMove]
  ELSE IF gameBoard.colFills[col] # NumRows
  THEN alphaBetaStep(col, bestMoveScore, bestMove, alpha, beta,
         evaluatePlayerMoveAB(self, addPiece(gameBoard, col, self.name),
                              alpha, beta))
  ELSE alphaBetaLoop(self, gameBoard, col + 1, bestMoveScore, bestMove, alpha, beta)

\* Player.getMoveAlphaBeta; bestMoveScore is the local that decided bestMove
getMoveAlphaBeta(self, gameBoard) ==
  LET loop == alphaBetaLoop(self, gameBoard, 0, -Inf, -1, -Inf, Inf)
  IN [self |-> loop.self, board |-> loop.board, bestMove |-> loop.bestMove,
      bestMoveScore |-> loop.bestMoveScore, raised |-> "none"]

\* ------------------------------------------------- what a search predicts
\* index of the first child whose score is the minimum of the children
worstChild(node) ==
  CHOOSE i \in 1 .. Len(node.children) :
    /\ \A j \in 1 .. Len(node.children) : node.children[i].score <= node.children[j].score
    /\ \A j \in 1 .. (i - 1) : node.children[j].score > node.children[i].score

\* The line of play a playerNode's score comes from: how the game ends on it
\* (for the player `name`, who has just moved on `b`) and after how many plies,
\* counting the move that produced `b`.
RECURSIVE principalLine(_, _, _)
principalLine(name, b, node) ==
  IF node.children = <<>>
  THEN [outcome |-> IF checkWin(b) THEN "win" ELSE "draw", plies |-> 1]
  ELSE LET reply == node.children[worstChild(node)]
           b1    == addPiece(b, moveColumn(reply.lastMove), IF name = "X" THEN "O" ELSE "X")
       IN IF reply.bestChild = None
          THEN [outcome |-> IF checkWin(b1) THEN "loss" ELSE "draw", plies |-> 2]
          ELSE LET answer == reply.bestChild[1]
                   b2     == addPiece(b1, moveColumn(answer.lastMove), name)
                   rest   == principalLine(name, b2, answer)
               IN [outcome |-> rest.outcome, plies |-> rest.plies + 2]

\* the root moves as getMove's first call evaluates them (lines 159-165):
\* one entry per legal column with its score and its predicted line
RECURSIVE rootMoves(_, _, _)
rootMoves(name, gameBoard, col) ==
  IF col = NumColumns THEN <<>>
  ELSE IF gameBoard.colFills[col] # NumRows
  THEN LET placed    == addPiece(gameBoard, col, name)
           moveState == evaluatePlayerMove(NewPlayer(name), placed)
           line      == principalLine(name, placed, moveState.node)
       IN <<[col |-> col, score |-> moveState.node.score,
             outcome |-> line.outcome, plies |-> line.plies]>>
          \o rootMoves(name, gameBoard, col + 1)
  ELSE rootMoves(name, gameBoard, col + 1)

\* no child of the retained state has its lastMove cell held by the opponent
noChildMatches(self, gameBoard) ==
  /\ self.lastState # None
  /\ \A i \in 1 .. Len(self.lastState[1].children) :
       LET lm == self.lastState[1].children[i].lastMove
       IN checkSpace(gameBoard, moveRow(lm), moveColumn(lm)) # self.opponentName

\* ------------------------------------------------------------------- state
VARIABLES
  board,    \* the Board object shared by the game loop and the players
  turn,     \* the mark that moves next
  status,   \* the game loop's verdict after the last real move
  player,   \* the Player that plays the game with getMove
  move,     \* what the player's last getMove call answered, None before it
  fresh,    \* answer of a new Player's getMove on this board, None if not asked
  ab,       \* answer of a new Player's getMoveAlphaBeta on this board
  ev        \* answer of the last direct call of an evaluate* method

vars == <<board, turn, status, player, move, fresh, ab, ev>>

Marks == {"X", "O"}
Other(mark) == IF mark = "X" THEN "O" ELSE "X"

\* (alpha, beta) pairs the alpha-beta evaluators are called with directly
Windows ==
  {<<-Inf, Inf>>, <<-Inf, DRAWPENALTY>>, <<DRAWPENALTY + MOVEPENALTY, Inf>>,
   <<LOSEPENALTY + MOVEPENALTY, WINSCORE + MOVEPENALTY>>,
   <<DRAWPENALTY + MOVEPENALTY, DRAWPENALTY>>}

Init ==
  /\ board = NewBoard
  /\ turn = "X"
  /\ status = "playing"
  /\ \E name \in Marks : player = NewPlayer(name)
  /\ move = None
  /\ fresh = None
  /\ ab = None
  /\ ev = None

\* the game loop's verdict on the board after a real move
Verdict(b) == IF checkWin(b) THEN "won" ELSE IF checkFull(b) THEN "draw" ELSE "playing"

\* the game loop places the mover's piece in a legal column (the opponent's
\* own choice, or a move of the player's side made before its search is used)
LoopPlay(col) ==
  /\ status = "playing"
  /\ board.colFills[col] # NumRows
  /\ turn = player.opponentName \/ player.lastState = None
  /\ board' = addPiece(board, col, turn)
  /\ status' = Verdict(board')
  /\ turn' = Other(turn)
  /\ fresh' = None
  /\ ab' = None
  /\ ev' = None
  /\ UNCHANGED <<player, move>>

\* the game loop plays the column the player's getMove answered
LoopApply ==
  /\ status = "playing"
  /\ turn = player.name
  /\ move # None
  /\ ~move[1].applied
  /\ move[1].raised = "none"
  /\ move[1].bestMove \in Cols
  /\ board.colFills[move[1].bestMove] # NumRows
  /\ board' = addPiece(board, move[1].bestMove, turn)
  /\ status' = Verdict(board')
  /\ turn' = Other(turn)
  /\ move' = <<[move[1] EXCEPT !.applied = TRUE]>>
  /\ fresh' = None
  /\ ab' = None
  /\ ev' = None
  /\ UNCHANGED player

\* the player is asked for its move with getMove; nothing stops the caller
\* from asking again before the opponent has moved
PlayerGetMove ==
  /\ status = "playing"
  /\ turn = player.name
  /\ EmptyCells(board) <= MaxEmpty
  /\ ev = None
  /\ LET r == getMove(player, board)
     IN /\ player' = r.self
        /\ board' = r.board
        /\ move' = <<[bestMove |-> r.bestMove,
                      raised   |-> r.raised,
                      retained |-> player.lastState # None,
                      inSync   |-> move # None /\ move[1].applied,
                      noMatch  |-> noChildMatches(player, board),
                      applied  |-> FALSE]>>
  /\ UNCHANGED <<turn, status, fresh, ab, ev>>

\* a new Player for the side to move is asked with getMove (exhaustive search)
FreshGetMove ==
  /\ EmptyCells(board) <= MaxEmpty
  /\ fresh = None
  /\ ev = None
  /\ LET r == getMove(NewPlayer(turn), board)
     IN /\ board' = r.board
        /\ fresh' = <<[bestMove    |-> r.bestMove,
                       raised      |-> r.raised,
                       lastState   |-> r.self.lastState,
                       numExpanded |-> r.self.numExpanded,
                       roots       |-> rootMoves(turn, board, 0)]>>
  /\ UNCHANGED <<turn, status, player, move, ab, ev>>

\* a new Player for the side to move is asked with getMoveAlphaBeta
GetMoveAlphaBeta ==
  /\ EmptyCells(board) <= MaxEmpty
  /\ ab = None
  /\ ev = None
  /\ LET r == getMoveAlphaBeta(NewPlayer(turn), board)
     IN /\ board' = r.board
        /\ ab' = <<[bestMove      |-> r.bestMove,
                    raised        |-> r.raised,
                    bestMoveScore |-> r.bestMoveScore,
                    numExpanded   |-> r.self.numExpanded,
                    numPruned     |-> r.self.numPruned]>>
  /\ UNCHANGED <<turn, status, player, move, fresh, ev>>

\* The evaluate* methods called directly on the board a real move has just
\* produced: the *PlayerMove ones by the Player that made the move, the
\* *OpponentMove ones by the Player that moves next.
CanEvaluate ==
  /\ board.lastPlay # None
  /\ EmptyCells(board) <= MaxEmpty
  /\ player.lastState = None /\ move = None
  /\ fresh = None /\ ab = None /\ ev = None

CallEvaluatePlayerMove ==
  /\ CanEvaluate
  /\ LET r == evaluatePlayerMove(NewPlayer(Other(turn)), board)
     IN /\ board' = r.board
        /\ ev' = <<[fn |-> "evaluatePlayerMove", score |-> r.node.score,
                    explored |-> Len(r.node.children),
                    numExpanded |-> r.self.numExpanded,
                    numPruned |-> r.self.numPruned]>>
  /\ UNCHANGED <<turn, status, player, move, fresh, ab>>

CallEvaluateOpponentMove ==
  /\ CanEvaluate
  /\ LET r == evaluateOpponentMove(NewPlayer(turn), board)
     IN /\ board' = r.board
        /\ ev' = <<[fn |-> "evaluateOpponentMove", score |-> r.node.score,
                    explored |-> Len(r.node.bestChild),
                    numExpanded |-> r.self.numExpanded,
                    numPruned |-> r.self.numPruned]>>
  /\ UNCHANGED <<turn, status, player, move, fresh, ab>>

CallEvaluatePlayerMoveAB ==
  /\ CanEvaluate
  /\ \E w \in Windows :
       LET r == evaluatePlayerMoveAB(NewPlayer(Other(turn)), board, w[1], w[2])
       IN /\ board' = r.board
          /\ ev' = <<[fn |-> "evaluatePlayerMoveAB", score |-> r.nodeScore,
                      explored |-> r.self.numExpanded - 1,
                      numExpanded |-> r.self.numExpanded,
                      numPruned |-> r.self.numPruned]>>
  /\ UNCHANGED <<turn, status, player, move, fresh, ab>>

CallEvaluateOpponentMoveAB ==
  /\ CanEvaluate
  /\ \E w \in Windows :
       LET r == evaluateOpponentMoveAB(NewPlayer(turn), board, w[1], w[2])
       IN /\ board' = r.board
          /\ ev' = <<[fn |-> "evaluateOpponentMoveAB", score |-> r.nodeScore,
                      explored |-> r.self.numExpanded - 1,
                      numExpanded |-> r.self.numExpanded,
                      numPruned |-> r.self.numPruned]>>
  /\ UNCHANGED <<turn, status, player, move, fresh, ab>>

Next ==
  \/ \E col \in Cols : LoopPlay(col)
  \/ LoopApply
  \/ PlayerGetMove
  \/ FreshGetMove
  \/ GetMoveAlphaBeta
  \/ CallEvaluatePlayerMove
  \/ CallEvaluateOpponentMove
  \/ CallEvaluatePlayerMoveAB
  \/ CallEvaluateOpponentMoveAB

Spec == Init /\ [][Next]_vars

\* ------------------------------------------------------------- properties
Asked(answer) == answer # None
BothAsked == Asked(fresh) /\ Asked(ab)

\* C1: on a board where the game goes on, the exhaustive getMove of a new
\* Player and getMoveAlphaBeta answer the same column.
C1_SameColumn ==
  (status = "playing" /\ BothAsked) => fresh[1].bestMove = ab[1].bestMove

\* C2: on a board where the game goes on, the best root score of
\* getMoveAlphaBeta equals the score of the playerNode that getMove retains.
C2_SameScore ==
  (status = "playing" /\ BothAsked /\ fresh[1].lastState # None)
     => ab[1].bestMoveScore = fresh[1].lastState[1].score

\* the player's pending answer was obtained by descending the retained tree,
\* after its previous answer was played and the opponent replied
ReusedInSync ==
  /\ Asked(move)
  /\ move[1].retained /\ move[1].inSync /\ ~move[1].applied

\* C3: a getMove that descends the retained tree, after the player's previous
\* answer was played and the opponent replied, answers the column a new
\* Player's exhaustive getMove answers on the same board.
C3_TreeReuse ==
  (ReusedInSync /\ Asked(fresh))
     => /\ move[1].raised = "none"
        /\ move[1].bestMove = fresh[1].bestMove

C3_Witness ==
  /\ ReusedInSync /\ Asked(fresh)
  /\ move[1].bestMove = fresh[1].bestMove
  /\ EmptyCells(board) <= 2

\* C4: every call of getMove, getMoveAlphaBeta and the evaluate* methods (the
\* steps that do not pass the turn; the game loop's own moves do) leaves the
\* cells and the column fills of the board as it found them.
C4_BoardRestored ==
  [][turn' = turn => /\ board'.cells = board.cells
                     /\ board'.colFills = board.colFills]_vars

\* alpha-beta has pruned, and the last cell it placed a piece in is empty again
C4_Witness ==
  /\ Asked(ab) /\ ab[1].numPruned > 0
  /\ board.lastPlay # None
  /\ checkSpace(board, moveRow(board.lastPlay), moveColumn(board.lastPlay)) = Empty

Decided(r) == r.outcome \in {"win", "loss"}
SameEnd(r1, r2) == Decided(r1) /\ r1.outcome = r2.outcome
RootPairs == IF Asked(fresh) THEN (1 .. Len(fresh[1].roots)) \X (1 .. Len(fresh[1].roots)) ELSE {}
Root(i) == fresh[1].roots[i]

\* C5 as claimed: of two root moves of one board, the win that takes more plies
\* scores strictly lower and the loss that takes more plies scores strictly
\* higher.
C5_DeeperLossHigher ==
  \A p \in RootPairs :
    (SameEnd(Root(p[1]), Root(p[2])) /\ Root(p[1]).plies > Root(p[2]).plies)
      => IF Root(p[1]).outcome = "win"
         THEN Root(p[1]).score < Root(p[2]).score
         ELSE Root(p[1]).score > Root(p[2]).score

\* C5 amended: of two root moves of one board that end the same way (both a
\* win or both a loss), the one that takes more plies scores strictly lower.
C5_DeeperScoresLower ==
  \A p \in RootPairs :
    (SameEnd(Root(p[1]), Root(p[2])) /\ Root(p[1]).plies > Root(p[2]).plies)
      => Root(p[1]).score < Root(p[2]).score

C5_Witness ==
  \E p \in RootPairs :
    /\ Root(p[1]).outcome = "loss" /\ Root(p[2]).outcome = "loss"
    /\ Root(p[1]).plies > Root(p[2]).plies
    /\ Root(p[1]).score < Root(p[2]).score

PlayerEvaluators == {"evaluatePlayerMove", "evaluatePlayerMoveAB"}

\* C6: an evaluate* method called on a won board returns WINSCORE + MOVEPENALTY
\* (player evaluators) or LOSEPENALTY (opponent evaluators) also when the board
\* is full; called on a full board that is not won it returns
\* DRAWPENALTY + MOVEPENALTY or DRAWPENALTY; in both cases it places no piece
\* and evaluates no child.
C6_TerminalScoring ==
  [][(ev = None /\ ev' # None /\ (checkWin(board) \/ checkFull(board)))
       => /\ ev'[1].score =
               IF checkWin(board)
               THEN (IF ev'[1].fn \in PlayerEvaluators THEN 9998 ELSE -9999)
               ELSE (IF ev'[1].fn \in PlayerEvaluators THEN -5001 ELSE -5000)
          /\ board' = board
          /\ ev'[1].explored = 0
          /\ ev'[1].numExpanded = 1]_vars

C6_Witness ==
  /\ Asked(ev)
  /\ status = "won" /\ checkWin(board) /\ checkFull(board)
  /\ ev[1].fn = "evaluateOpponentMoveAB" /\ ev[1].score = LOSEPENALTY

\* C7: a getMove called with a retained state none of whose children matches
\* the board ends by signalling TreeDesync.
C7_DesyncSignalled ==
  (Asked(move) /\ move[1].noMatch) => move[1].raised = "TreeDesync"

\* C8: getMove of a new Player and getMoveAlphaBeta, called on a board whose
\* columns are all full, end by signalling NoLegalMove.
C8_NoLegalMoveSignalled ==
  checkFull(board) =>
    /\ Asked(fresh) => fresh[1].raised = "NoLegalMove"
    /\ Asked(ab) => ab[1].raised = "NoLegalMove"

\* the columns where the side to move completes a run at once
WinningColumns ==
  {c \in Cols : /\ board.colFills[c] # NumRows
                /\ checkWin(addPiece(board, c, turn))}
Lowest(S) == CHOOSE c \in S : \A d \in S : c <= d

\* C9: when the side to move can complete a run at once, getMove of a new
\* Player and getMoveAlphaBeta both answer the lowest such column, with best
\* root score WINSCORE + MOVEPENALTY.
C9_ImmediateWin ==
  WinningColumns # {} =>
    /\ Asked(fresh) => /\ fresh[1].bestMove = Lowest(WinningColumns)
                       /\ fresh[1].lastState[1].score = 9998
    /\ Asked(ab) => /\ ab[1].bestMove = Lowest(WinningColumns)
                    /\ ab[1].bestMoveScore = 9998

C9_Witness ==
  /\ status = "playing" /\ BothAsked
  /\ EmptyCells(board) = 1
  /\ WinningColumns # {}
  /\ fresh[1].bestMove = ab[1].bestMove

\* C10: on one board, getMoveAlphaBeta of a new Player expands at most as many
\* nodes as the exhaustive getMove of a new Player.
C10_FewerExpanded ==
  BothAsked => ab[1].numExpanded <= fresh[1].numExpanded

C10_Witness ==
  /\ BothAsked
  /\ ab[1].numPruned > 0
  /\ ab[1].numExpanded < fresh[1].numExpanded
====
